---- MODULE Spec2Model ----
(***************************************************************************)
(* Node registry, command dispatch and documentation cache of foundry-mcp. *)
(*                                                                         *)
(* The server is a single-threaded event loop: a tool handler runs without *)
(* interruption from one await to the next, and handlers of different      *)
(* requests interleave at those awaits.  Each action below is one such     *)
(* uninterrupted segment of a handler.  The anvil processes and whatever   *)
(* else listens on a port are the environment.                             *)
(***************************************************************************)
EXTENDS Integers, Sequences, FiniteSets, TLC

\* ------------------------------------------------------------------ bounds
MaxCalls == 3                     \* requests handled in one run

\* --------------------------------------------------------------- constants
DefaultPort == 8545
Ports == {8545, 8546}
PortArgs == Ports \cup {0}        \* 0: the optional port was omitted
ForkUrls == {"", "http://fork"}   \* "": fork-url omitted
Reqs == {"r1", "r2"}              \* requests that can be in flight together
Pids == 1..MaxCalls               \* a call spawns at most one anvil
ChainId == "0x7a69"

VARIABLES
  anvilInstances,   \* the Map<number, AnvilInstance>, in insertion order
  procs,            \* operating-system view of the spawned anvil processes
  context,          \* ToolContext read once at start-up
  req,              \* the handler invocation running in each request slot
  calls,            \* requests accepted so far
  removed,          \* history: ports whose entry a status call removed and
                    \* that no start has registered since
  docsCache,        \* docs.ts: the cached documentation, or null
  now               \* Date.now(), in milliseconds since the server started

vars == <<anvilInstances, procs, context, req, calls, removed, docsCache, now>>

\* docsCache: { content, timestamp } | null
null == [set |-> FALSE, content |-> "", timestamp |-> 0]

\* ------------------------------------------------------- Map<number, ...>
NoInstance == [port |-> 0, pid |-> 0, forkUrl |-> ""]

MapIndex(m, k) ==
  IF \E i \in 1..Len(m) : m[i].key = k
    THEN CHOOSE i \in 1..Len(m) : m[i].key = k
    ELSE 0

\* Variant: a lookup that never finds the key.
MapHasNever(m, k) == FALSE

MapHas(m, k) == MapIndex(m, k) # 0

MapGet(m, k) == IF MapHas(m, k) THEN m[MapIndex(m, k)].value ELSE NoInstance

\* Variant: set() that always adds a new entry.
MapSetAppend(m, k, v) == Append(m, [key |-> k, value |-> v])

MapSet(m, k, v) ==
  IF MapHas(m, k)
    THEN [m EXCEPT ![MapIndex(m, k)] = [key |-> k, value |-> v]]
    ELSE Append(m, [key |-> k, value |-> v])

MapDelete(m, k) ==
  IF MapHas(m, k)
    THEN [i \in 1..(Len(m) - 1) |-> IF i < MapIndex(m, k) THEN m[i] ELSE m[i + 1]]
    ELSE m

MapKeys(m) == {m[i].key : i \in 1..Len(m)}

\* Variant: an iterator that keeps its index when an earlier entry goes.
IterNoAdjust(it, j) == it

\* A live Map iterator that has consumed `it` entries; deleting the entry at
\* position j moves every iterator that is already past it one step back.
IterAfterDelete(it, j) == IF j # 0 /\ j <= it THEN it - 1 ELSE it

\* ------------------------------------------------------------ environment
\* state: "unborn" (pid not used yet), "starting" (spawned, port not bound
\* yet), "listening" (answers JSON-RPC on its port), "exited".
\* port is the --port the process was spawned with (kept while it lives);
\* registered is history: whether the pid was ever stored in the registry.
NoProc == [state |-> "unborn", port |-> 0, registered |-> FALSE]

Exited(proc) == [proc EXCEPT !.state = "exited", !.port = 0]

Alive(pid) == procs[pid].state \in {"starting", "listening"}

Listening(port) ==
  \E pid \in Pids : procs[pid].state = "listening" /\ procs[pid].port = port

NextPid ==
  IF \E pid \in Pids : procs[pid].state = "unborn"
    THEN CHOOSE pid \in Pids :
           /\ procs[pid].state = "unborn"
           /\ \A q \in Pids : procs[q].state = "unborn" => pid <= q
    ELSE 0

\* The answers an eth_chainId round trip to 127.0.0.1:port can produce: a
\* result only if something listens there, an error or a refused connection
\* at any time.
ProbeOutcomes(port) == IF Listening(port) THEN {TRUE, FALSE} ELSE {FALSE}

\* Delivery of a termination signal to a process: a live one exits.
Signalled(ps, pid) ==
  [ps EXCEPT ![pid] = IF @.state \in {"starting", "listening"} THEN Exited(@) ELSE @]

\* ---------------------------------------------------------------- results
Text(kind, port, pid, chainId, forkUrl) ==
  [text |-> kind, port |-> port, pid |-> pid, chainId |-> chainId, forkUrl |-> forkUrl]

NoText == Text("", 0, 0, "", "")

\* textContent(...) of the handler's template string
textContent(t) == t

Line(tag, str, num) == [tag |-> tag, str |-> str, num |-> num]

\* Variant of formatOutput: the exit code is shown only when the program
\* wrote nothing to stderr.
formatOutputExitCodeUnlessStderr(result) ==
  IF result.success
    THEN <<Line("", IF result.stdout # "" THEN result.stdout
                    ELSE "Command completed successfully.", 0)>>
    ELSE (IF result.stderr # "" THEN <<Line("Error: ", result.stderr, 0)>> ELSE <<>>)
         \o (IF result.stdout # "" THEN <<Line("Output: ", result.stdout, 0)>> ELSE <<>>)
         \o (IF result.stderr # "" THEN <<>> ELSE <<Line("Exit code: ", "", result.exitCode)>>)

formatOutput(result) ==
  IF result.success
    THEN <<Line("", IF result.stdout # "" THEN result.stdout
                    ELSE "Command completed successfully.", 0)>>
    ELSE (IF result.stderr # "" THEN <<Line("Error: ", result.stderr, 0)>> ELSE <<>>)
         \o (IF result.stdout # "" THEN <<Line("Output: ", result.stdout, 0)>> ELSE <<>>)
         \o <<Line("Exit code: ", "", result.exitCode)>>

\* What the operating system does with one Bun.spawn of an external program:
\* the spawn throws with a description, or the program runs, writes its two
\* streams and exits with a code.
RawStreams == {"", " ", "out", " out "}
SpawnErrors == {"ENOENT", "EACCES"}
ExitCodes == {0, 1, 2}

Run(spawned, error, stdout, stderr, exitCode) ==
  [spawned |-> spawned, error |-> error, stdout |-> stdout, stderr |-> stderr,
   exitCode |-> exitCode]

Runs(spawnOk) ==
  IF spawnOk
    THEN {Run(TRUE, "", o, e, c) : o \in RawStreams, e \in RawStreams, c \in ExitCodes}
    ELSE {Run(FALSE, d, "", "", 0) : d \in SpawnErrors}

\* String.prototype.trim on the stream contents above
trim(s) == CASE s = " " -> "" [] s = " out " -> "out" [] OTHER -> s

\* Variant of exec: a spawn failure is reported with exit code 0.
execSpawnFailureZero(run) ==
  IF run.spawned
    THEN [success |-> (run.exitCode = 0), stdout |-> trim(run.stdout),
          stderr |-> trim(run.stderr), exitCode |-> run.exitCode]
    ELSE [success |-> FALSE, stdout |-> "", stderr |-> run.error, exitCode |-> 0]

\* Variant of exec: a run counts as a success when it wrote nothing to stderr.
execSuccessNoStderr(run) ==
  IF run.spawned
    THEN [success |-> (run.stderr = ""), stdout |-> trim(run.stdout),
          stderr |-> trim(run.stderr), exitCode |-> run.exitCode]
    ELSE [success |-> FALSE, stdout |-> "", stderr |-> run.error, exitCode |-> 1]

\* exec(): the CommandResult one run resolves to.
exec(run) ==
  IF run.spawned
    THEN [success |-> (run.exitCode = 0), stdout |-> trim(run.stdout),
          stderr |-> trim(run.stderr), exitCode |-> run.exitCode]
    ELSE [success |-> FALSE, stdout |-> "", stderr |-> run.error, exitCode |-> 1]

ExecOutcomes(spawnOk) == {exec(run) : run \in Runs(spawnOk)}

\* URLs are [host, port] records; NoUrl is an omitted (undefined) URL.
Url(host, port) == [host |-> host, port |-> port]
NoUrl == Url("", 0)
Local(port) == Url("127.0.0.1", port)

\* Variant of getRpcUrl: the environment default is not consulted.
getRpcUrlNoContext(rpcUrl, ctx, port) ==
  IF rpcUrl # NoUrl THEN rpcUrl
  ELSE IF port # 0 THEN Local(port)
  ELSE Local(8545)

getRpcUrl(rpcUrl, ctx, port) ==
  IF rpcUrl # NoUrl THEN rpcUrl
  ELSE IF port # 0 THEN Local(port)
  ELSE IF ctx.rpcUrl # NoUrl THEN ctx.rpcUrl
  ELSE Local(8545)

\* ----------------------------------------------------------- request slots
\* pc is the await the handler is suspended at; "idle": no handler running;
\* "returned": the handler has just returned result (or raised).
\* History of the call: probes (requests sent), probed (their outcomes),
\* kills (pids it signalled), writes (its registry updates), afterRemoval
\* (the call was accepted while its port was in `removed`).
Fresh(tool, port) ==
  [pc |-> "idle", tool |-> tool, port |-> port, forkUrl |-> "", pid |-> 0,
   p |-> 0, instance |-> NoInstance, it |-> 0, url |-> NoUrl,
   result |-> NoText, statuses |-> <<>>, output |-> <<>>, raised |-> FALSE,
   afterRemoval |-> FALSE,
   probes |-> 0, probed |-> <<>>, kills |-> <<>>, writes |-> <<>>]

Return(rec, t) ==
  [rec EXCEPT !.pc = "returned", !.result = t, !.instance = NoInstance,
              !.it = 0, !.p = 0, !.url = NoUrl]

\* A handler's return value is written to the transport in the same turn of
\* the event loop, before any other handler segment runs.
Quiet == \A x \in Reqs : req[x].pc # "returned"

\* A new request is accepted into the first free slot.
Accept(r) ==
  /\ Quiet
  /\ req[r].pc = "idle"
  /\ r = "r2" => req["r1"].pc # "idle"
  /\ calls < MaxCalls
  /\ calls' = calls + 1

\* Variant: requests are served one after the other; a segment of the second
\* request runs only when the first slot is free.
AtInTurn(r, pc) == Quiet /\ req[r].pc = pc /\ (r = "r2" => req["r1"].pc = "idle")

At(r, pc) == Quiet /\ req[r].pc = pc

\* Every live iterator over anvilInstances sees the deletion of key k.
ItersAfterDelete(rq, k) ==
  [x \in Reqs |-> [rq[x] EXCEPT !.it = IterAfterDelete(@, MapIndex(anvilInstances, k))]]

RpcUrlArgs == {NoUrl, Url("remote", 8545)}

Init ==
  /\ anvilInstances = <<>>
  /\ procs = [pid \in Pids |-> NoProc]
  /\ context = [rpcUrl |-> NoUrl]      \* RPC_URL is not set in the environment
  /\ req = [r \in Reqs |-> Fresh("", 0)]
  /\ calls = 0
  /\ removed = {}
  /\ docsCache = null
  /\ now = 0

\* ------------------------------------------------------------- anvil_start
\* Variant: the entry is set before the probe's outcome is known.
StartRegistryAlways(m, inst, ok) == MapSet(m, inst.port, inst)

\* The registry after the probe: the entry is set only on the success path.
StartRegistry(m, inst, ok) == IF ok THEN MapSet(m, inst.port, inst) ELSE m

\* Variant: the failure path signals the pid registered under the port.
StartKillRegistered(rec, m) == IF MapHas(m, rec.port) THEN MapGet(m, rec.port).pid ELSE rec.pid

\* proc.kill() on the failure path signals the process this call spawned.
StartKillPid(rec, m) == rec.pid

\* Up to the first await: registry check, buildArgs, Bun.spawn, setTimeout.
\* spawnOk = FALSE is Bun.spawn throwing (no anvil binary): nothing catches
\* it, the handler's promise rejects.
AnvilStart(r, portArg, forkUrl, spawnOk) ==
  LET port == IF portArg = 0 THEN DefaultPort ELSE portArg
      rec  == [Fresh("anvil_start", port) EXCEPT !.forkUrl = forkUrl]
  IN /\ Accept(r)
     /\ IF MapHas(anvilInstances, port)
          THEN /\ req' = [req EXCEPT ![r] =
                            Return(rec, textContent(Text("already_running", port, 0, "", "")))]
               /\ UNCHANGED procs
          ELSE IF ~spawnOk
          THEN /\ req' = [req EXCEPT ![r] = [Return(rec, NoText) EXCEPT !.raised = TRUE]]
               /\ UNCHANGED procs
          ELSE /\ procs' = [procs EXCEPT ![NextPid] =
                              [NoProc EXCEPT !.state = "starting", !.port = port]]
               /\ req' = [req EXCEPT ![r] =
                            [rec EXCEPT !.pc = "start_sleep", !.pid = NextPid]]
     /\ UNCHANGED <<anvilInstances, context, docsCache, now, removed>>

\* The warm-up timer fires; jsonRpcCall sends the eth_chainId request.
StartWarmedUp(r) ==
  /\ At(r, "start_sleep")
  /\ req' = [req EXCEPT ![r].pc = "start_probe", ![r].probes = @ + 1]
  /\ UNCHANGED <<anvilInstances, procs, context, docsCache, now, calls, removed>>

\* The probe resolves (ok) or rejects.
StartProbed(r, ok) ==
  LET rec  == [req[r] EXCEPT !.probed = Append(@, [port |-> req[r].port, ok |-> ok])]
      inst == [port |-> rec.port, pid |-> rec.pid, forkUrl |-> rec.forkUrl]
      kill == StartKillPid(rec, anvilInstances)
  IN /\ At(r, "start_probe")
     /\ ok \in ProbeOutcomes(rec.port)
     /\ anvilInstances' = StartRegistry(anvilInstances, inst, ok)
     /\ IF ok
          THEN /\ procs' = [procs EXCEPT ![rec.pid].registered = TRUE]
               /\ removed' = removed \ {rec.port}
               /\ req' = [req EXCEPT ![r] =
                    Return([rec EXCEPT !.writes = Append(@,
                               [op |-> "set", key |-> rec.port, value |-> inst])],
                           textContent(Text("started", rec.port, rec.pid, ChainId, "")))]
          ELSE /\ procs' = Signalled(procs, kill)
               /\ removed' = removed
               /\ req' = [req EXCEPT ![r] =
                    Return([rec EXCEPT !.kills = Append(@, kill)],
                           textContent(Text("start_failed", rec.port, 0, "", "")))]
     /\ UNCHANGED <<context, docsCache, now, calls>>

\* -------------------------------------------------------------- anvil_stop
\* Variant: the entry is deleted only when the signal was delivered.
StopRegistryOnSuccess(m, port, delivered) == IF delivered THEN MapDelete(m, port) ELSE m

\* The entry is deleted whether process.kill returned or threw.
StopRegistry(m, port, delivered) == MapDelete(m, port)

\* Variant: no "not tracked" answer.
StopResultStopped(tracked, delivered) == IF delivered THEN "stopped" ELSE "error_stopping"

StopResult(tracked, delivered) ==
  IF ~tracked THEN "not_tracked"
  ELSE IF delivered THEN "stopped" ELSE "error_stopping"

\* No await: the whole handler is one step.  process.kill throws when the
\* pid names no process any more.
AnvilStop(r, portArg) ==
  LET port == IF portArg = 0 THEN DefaultPort ELSE portArg
      rec  == Fresh("anvil_stop", port)
      instance  == MapGet(anvilInstances, port)
      tracked   == MapHas(anvilInstances, port)
      delivered == tracked /\ Alive(instance.pid)
      text == textContent(Text(StopResult(tracked, delivered), port, 0, "", ""))
  IN /\ Accept(r)
     /\ IF ~tracked
          THEN /\ req' = [req EXCEPT ![r] = Return(rec, text)]
               /\ UNCHANGED <<anvilInstances, procs>>
          ELSE /\ procs' = Signalled(procs, instance.pid)
               /\ anvilInstances' = StopRegistry(anvilInstances, port, delivered)
               /\ req' = [ItersAfterDelete(req, port) EXCEPT ![r] =
                    Return([rec EXCEPT !.kills = Append(@, instance.pid),
                                       !.writes = Append(@, [op |-> "delete", key |-> port,
                                                              value |-> instance])],
                           text)]
     /\ UNCHANGED <<context, docsCache, now, removed>>

\* ------------------------------------------------------------ anvil_status
\* Variant: a failed probe leaves the entry in place.
StatusRegistryKeep(m, port, instance, ok) == m

\* Variant: a node found on an untracked port is adopted into the registry.
StatusRegistryAdopt(m, port, instance, ok) ==
  IF instance = NoInstance
    THEN (IF ok THEN MapSet(m, port, [port |-> port, pid |-> 0, forkUrl |-> ""]) ELSE m)
    ELSE (IF ok THEN m ELSE MapDelete(m, port))

\* The registry after a probe of `port`: a tracked entry whose probe failed
\* is deleted, nothing is ever inserted.
StatusRegistry(m, port, instance, ok) ==
  IF instance # NoInstance /\ ~ok THEN MapDelete(m, port) ELSE m

\* for (const [p, instance] of anvilInstances): take the next entry of the
\* live iterator and send its probe, or leave the loop and return.
IterNext(rec, m) ==
  IF rec.it < Len(m)
    THEN [rec EXCEPT !.pc = "statusall_probe", !.it = @ + 1,
                     !.p = m[rec.it + 1].key, !.instance = m[rec.it + 1].value,
                     !.probes = @ + 1]
    ELSE Return(rec, textContent(Text("statuses", 0, 0, "", "")))

AnvilStatus(r, portArg) ==
  LET rec == [Fresh("anvil_status", portArg) EXCEPT !.afterRemoval = portArg \in removed]
  IN /\ Accept(r)
     /\ IF portArg # 0
          THEN req' = [req EXCEPT ![r] =
                 [rec EXCEPT !.pc = "status_probe", !.probes = @ + 1,
                             !.instance = MapGet(anvilInstances, portArg)]]
          ELSE IF Len(anvilInstances) = 0
          THEN req' = [req EXCEPT ![r] =
                 Return(rec, textContent(Text("no_tracked", 0, 0, "", "")))]
          ELSE req' = [req EXCEPT ![r] = IterNext(rec, anvilInstances)]
     /\ UNCHANGED <<anvilInstances, procs, context, docsCache, now, removed>>

\* Single port: the probe resolves or rejects.
StatusProbed(r, ok) ==
  LET rec == [req[r] EXCEPT !.probed = Append(@, [port |-> req[r].port, ok |-> ok])]
      instance == rec.instance
  IN /\ At(r, "status_probe")
     /\ ok \in ProbeOutcomes(rec.port)
     /\ anvilInstances' = StatusRegistry(anvilInstances, rec.port, instance, ok)
     /\ IF instance = NoInstance
          THEN /\ req' = [req EXCEPT ![r] = Return(rec, textContent(
                    IF ok THEN Text("running_untracked", rec.port, 0, ChainId, "")
                          ELSE Text("no_instance", rec.port, 0, "", "")))]
               /\ removed' = removed
          ELSE IF ok
          THEN /\ req' = [req EXCEPT ![r] = Return(rec, textContent(
                    Text("running", rec.port, instance.pid, ChainId, instance.forkUrl)))]
               /\ removed' = removed
          ELSE /\ req' = [ItersAfterDelete(req, rec.port) EXCEPT ![r] =
                    Return([rec EXCEPT !.writes = Append(@,
                               [op |-> "delete", key |-> rec.port,
                                value |-> MapGet(anvilInstances, rec.port)])],
                           textContent(Text("not_responding", rec.port, 0, "", "")))]
               /\ removed' = removed \cup {rec.port}
     /\ UNCHANGED <<procs, context, docsCache, now, calls>>

\* All ports: the probe of the current entry resolves or rejects, then the
\* loop goes on to the next entry.
StatusAllProbed(r, ok) ==
  LET p == req[r].p
      rec == [req[r] EXCEPT !.probed = Append(@, [port |-> p, ok |-> ok])]
      after == StatusRegistry(anvilInstances, p, rec.instance, ok)
      hit == [rec EXCEPT !.statuses = Append(@,
                Text("port_running", p, rec.instance.pid, ChainId, ""))]
      miss == [rec EXCEPT
                !.it = IterAfterDelete(@, MapIndex(anvilInstances, p)),
                !.statuses = Append(@, Text("port_not_responding", p, 0, "", "")),
                !.writes = Append(@, [op |-> "delete", key |-> p,
                                      value |-> MapGet(anvilInstances, p)])]
  IN /\ At(r, "statusall_probe")
     /\ ok \in ProbeOutcomes(p)
     /\ anvilInstances' = after
     /\ IF ok
          THEN /\ req' = [req EXCEPT ![r] = IterNext(hit, after)]
               /\ removed' = removed
          ELSE /\ req' = [ItersAfterDelete(req, p) EXCEPT ![r] = IterNext(miss, after)]
               /\ removed' = removed \cup {p}
     /\ UNCHANGED <<procs, context, docsCache, now, calls>>

\* ------------------------------------------- node control over JSON-RPC
\* anvil_mine, anvil_setBalance, anvil_setCode, anvil_setStorageAt,
\* anvil_impersonateAccount, anvil_stopImpersonatingAccount, anvil_snapshot,
\* anvil_revert, anvil_setNextBlockTimestamp, anvil_increaseTime,
\* anvil_setAutomine, anvil_reset, anvil_getAccounts: every one of these
\* handlers is getRpcUrl followed by one jsonRpcCall inside try/catch.  They
\* differ in the method name and its parameters only.
AnvilRpc(r, rpcUrl) ==
  /\ Accept(r)
  /\ req' = [req EXCEPT ![r] =
       [Fresh("anvil_rpc", 0) EXCEPT !.pc = "rpc_wait", !.probes = 1,
                                     !.url = getRpcUrl(rpcUrl, context, 0)]]
  /\ UNCHANGED <<anvilInstances, procs, context, docsCache, now, removed>>

\* A request to a local port is answered only if a node listens there.
RpcOutcomes(url) ==
  IF url.host = "127.0.0.1" THEN ProbeOutcomes(url.port) ELSE {TRUE, FALSE}

\* Variant: a failed call drops the registry entry of the port it went to.
RpcResolvedHealing(r, ok) ==
  /\ At(r, "rpc_wait")
  /\ ok \in RpcOutcomes(req[r].url)
  /\ anvilInstances' = IF ok THEN anvilInstances
                       ELSE MapDelete(anvilInstances, req[r].url.port)
  /\ req' = [ItersAfterDelete(req, IF ok THEN 0 ELSE req[r].url.port) EXCEPT ![r] =
       Return(req[r], textContent(
         Text(IF ok THEN "rpc_done" ELSE "rpc_error", 0, 0, "", "")))]
  /\ UNCHANGED <<procs, context, docsCache, now, calls, removed>>

RpcResolved(r, ok) ==
  /\ At(r, "rpc_wait")
  /\ ok \in RpcOutcomes(req[r].url)
  /\ req' = [req EXCEPT ![r] = Return(req[r], textContent(
       Text(IF ok THEN "rpc_done" ELSE "rpc_error", 0, 0, "", "")))]
  /\ UNCHANGED <<anvilInstances, procs, context, docsCache, now, calls, removed>>

\* ----------------------------------- forge / cast / chisel / help commands
\* The handlers built on exec(): buildArgs, await exec(...), formatOutput.
\* spawnOk = FALSE is Bun.spawn throwing inside exec, which exec catches.
ExecCommand(r, spawnOk) ==
  /\ Accept(r)
  /\ req' = [req EXCEPT ![r] =
       IF spawnOk THEN [Fresh("exec", 0) EXCEPT !.pc = "exec_wait"]
       ELSE [Return(Fresh("exec", 0), textContent(Text("output", 0, 0, "", "")))
               EXCEPT !.output = formatOutput(CHOOSE c \in ExecOutcomes(FALSE) : TRUE)]]
  /\ UNCHANGED <<anvilInstances, procs, context, docsCache, now, removed>>

\* The subprocess has closed its streams and exited.
ExecExited(r, result) ==
  /\ At(r, "exec_wait")
  /\ result \in ExecOutcomes(TRUE)
  /\ req' = [req EXCEPT ![r] =
       [Return(req[r], textContent(Text("output", 0, 0, "", "")))
          EXCEPT !.output = formatOutput(result)]]
  /\ UNCHANGED <<anvilInstances, procs, context, docsCache, now, calls, removed>>

\* The response is on the wire; the slot is free for the next request.
Deliver(r) ==
  /\ req[r].pc = "returned"
  /\ req' = [req EXCEPT ![r] = Fresh("", 0)]
  /\ UNCHANGED <<anvilInstances, procs, context, docsCache, now, calls, removed>>

\* ------------------------------------------------------------ environment
\* A spawned anvil binds its port, or exits because the port is taken.
ProcBind(pid) ==
  /\ Quiet
  /\ procs[pid].state = "starting"
  /\ procs' = [procs EXCEPT ![pid] =
                 IF Listening(procs[pid].port) THEN Exited(@)
                 ELSE [@ EXCEPT !.state = "listening"]]
  /\ UNCHANGED <<anvilInstances, context, docsCache, now, req, calls, removed>>

\* A running anvil exits on its own.
ProcExit(pid) ==
  /\ Quiet
  /\ procs[pid].state = "listening"
  /\ procs' = [procs EXCEPT ![pid] = Exited(@)]
  /\ UNCHANGED <<anvilInstances, context, docsCache, now, req, calls, removed>>

Next ==
  \/ \E r \in Reqs, portArg \in PortArgs, forkUrl \in ForkUrls, spawnOk \in BOOLEAN :
       AnvilStart(r, portArg, forkUrl, spawnOk)
  \/ \E r \in Reqs : StartWarmedUp(r)
  \/ \E r \in Reqs, ok \in BOOLEAN : StartProbed(r, ok)
  \/ \E r \in Reqs, portArg \in PortArgs : AnvilStop(r, portArg)
  \/ \E r \in Reqs, portArg \in PortArgs : AnvilStatus(r, portArg)
  \/ \E r \in Reqs, ok \in BOOLEAN : StatusProbed(r, ok)
  \/ \E r \in Reqs, ok \in BOOLEAN : StatusAllProbed(r, ok)
  \/ \E r \in Reqs, rpcUrl \in RpcUrlArgs : AnvilRpc(r, rpcUrl)
  \/ \E r \in Reqs, ok \in BOOLEAN : RpcResolved(r, ok)
  \/ \E r \in Reqs, spawnOk \in BOOLEAN : ExecCommand(r, spawnOk)
  \/ \E r \in Reqs, result \in ExecOutcomes(TRUE) : ExecExited(r, result)
  \/ \E r \in Reqs : Deliver(r)
  \/ \E pid \in Pids : ProcBind(pid)
  \/ \E pid \in Pids : ProcExit(pid)

Spec == Init /\ [][Next]_vars

\* The same server under the scheduling the runtime gives: a timer that
\* was set fires, an HTTP request that was sent resolves or rejects, a
\* subprocess that was spawned closes its streams and exits, and a returned
\* result is written to the transport.  Settle(r) is the next such event of
\* request r.
Settle(r) ==
  \/ StartWarmedUp(r)
  \/ \E ok \in BOOLEAN : StartProbed(r, ok)
  \/ \E ok \in BOOLEAN : StatusProbed(r, ok)
  \/ \E ok \in BOOLEAN : StatusAllProbed(r, ok)
  \/ \E ok \in BOOLEAN : RpcResolved(r, ok)
  \/ \E result \in ExecOutcomes(TRUE) : ExecExited(r, result)
  \/ Deliver(r)

SpecLive == Init /\ [][Next]_vars /\ \A r \in Reqs : WF_vars(Settle(r))

\* ============================================= command-running handlers
\* The handlers that run an external program, one invocation per request
\* slot.  SpecExec follows each of them from the spawn to the returned text.
\*   forge_build            exec + formatOutput, as every forge_*, cast_*,
\*                          chisel_list/load/view/clear_cache and *_help tool
\*   foundry_list_commands  exec, own error text
\*   foundry_version        four exec calls under Promise.all
\*   chisel_eval            Bun.spawn(["bash", "-c", ...]) in the handler
\*   chisel_run             the same, after writing the code to a temp file
CmdTools ==
  {"forge_build", "foundry_list_commands", "foundry_version", "chisel_eval", "chisel_run"}

ExecTools == {"forge_build", "foundry_list_commands", "foundry_version"}

\* exec calls one invocation of the tool makes
ExecCalls(tool) ==
  CASE tool = "foundry_version" -> 4
    [] tool \in ExecTools -> 1
    [] OTHER -> 0

\* runs: what the operating system did with each spawn of the invocation;
\* results: the CommandResults exec returned to the handler;
\* tmp: the temp file of chisel_run ("absent", "code", "empty").
CmdFresh(tool) ==
  [pc |-> "idle", tool |-> tool, runs |-> <<>>, results |-> <<>>,
   output |-> <<>>, raised |-> FALSE, tmp |-> "absent"]

CmdReturn(rec, out) == [rec EXCEPT !.pc = "returned", !.output = out]

CmdRaise(rec) == [rec EXCEPT !.pc = "returned", !.raised = TRUE]

Or(a, b) == IF a # "" THEN a ELSE b          \* a || b on strings

\* lines.find(l => l.includes("Type:") || ...): none of the stream contents
\* above has such a line.
resultLine(stdout) == ""

\* The text each handler builds from what it got back.
listCommandsText(result) ==
  IF ~result.success THEN <<Line("Error: ", result.stderr, 0)>>
  ELSE <<Line("Available commands:", result.stdout, 0)>>

versionLabels == <<"Forge: ", "Cast: ", "Anvil: ", "Chisel: ">>

versionText(results) ==
  [i \in 1..Len(results) |->
     Line(versionLabels[i], Or(results[i].stdout, "not installed"), 0)]

chiselEvalText(run) ==
  IF run.exitCode # 0 THEN <<Line("Error: ", Or(run.stderr, run.stdout), 0)>>
  ELSE <<Line("", Or(resultLine(run.stdout),
                     Or(trim(run.stdout), "Expression evaluated (no output)")), 0)>>

chiselRunText(run) ==
  IF run.exitCode # 0 /\ run.stderr # "" THEN <<Line("Error: ", run.stderr, 0)>>
  ELSE <<Line("", Or(trim(run.stdout), "Code executed successfully"), 0)>>

\* The handler has every CommandResult it awaits: it returns its text.
ExecDone(rec) ==
  IF Len(rec.results) < ExecCalls(rec.tool) THEN rec
  ELSE CmdReturn(rec,
         CASE rec.tool = "forge_build" -> formatOutput(rec.results[1])
           [] rec.tool = "foundry_list_commands" -> listCommandsText(rec.results[1])
           [] OTHER -> versionText(rec.results))

\* foundry_version is followed for these runs of each of its four programs.
VersionRuns ==
  {Run(FALSE, "ENOENT", "", "", 0), Run(TRUE, "", "out", "", 0),
   Run(TRUE, "", "", "out", 1)}

CmdRuns(tool, spawnOk) ==
  IF tool = "foundry_version" THEN {x \in VersionRuns : x.spawned = spawnOk}
  ELSE Runs(spawnOk)

InitExec ==
  /\ anvilInstances = <<>>
  /\ procs = [pid \in Pids |-> NoProc]
  /\ context = [rpcUrl |-> NoUrl]
  /\ req = [r \in Reqs |-> CmdFresh("")]
  /\ calls = 0
  /\ removed = {}
  /\ docsCache = null
  /\ now = 0

\* A request for one of the tools is accepted; the handler runs up to its
\* first await.  chisel_run awaits Bun.write; the others spawn at once.
CmdCall(r, tool) ==
  /\ Accept(r)
  /\ req' = [req EXCEPT ![r] =
       [CmdFresh(tool) EXCEPT !.pc = IF tool = "chisel_run" THEN "write_tmp" ELSE "spawn"]]
  /\ UNCHANGED <<anvilInstances, procs, context, docsCache, now, removed>>

\* await Bun.write(tmpFile, code), outside the try block.
CmdTmpWritten(r, ok) ==
  /\ At(r, "write_tmp")
  /\ req' = [req EXCEPT ![r] =
       IF ok THEN [@ EXCEPT !.pc = "spawn", !.tmp = "code"] ELSE CmdRaise(@)]
  /\ UNCHANGED <<anvilInstances, procs, context, docsCache, now, calls, removed>>

\* Bun.spawn throws.  Inside exec the catch block turns it into a
\* CommandResult; in chisel_eval and chisel_run nothing catches it, and the
\* finally block of chisel_run empties the temp file on the way out.
CmdSpawnFailed(r, run) ==
  /\ At(r, "spawn")
  /\ run \in CmdRuns(req[r].tool, FALSE)
  /\ req' = [req EXCEPT ![r] =
       IF @.tool \in ExecTools
         THEN ExecDone([@ EXCEPT !.runs = Append(@, run), !.results = Append(@, exec(run))])
       ELSE CmdRaise([@ EXCEPT !.runs = Append(@, run),
                               !.tmp = IF @ = "code" THEN "empty" ELSE @])]
  /\ UNCHANGED <<anvilInstances, procs, context, docsCache, now, calls, removed>>

\* The program was spawned, has closed its streams and exited.
CmdExited(r, run) ==
  /\ At(r, "spawn")
  /\ run \in CmdRuns(req[r].tool, TRUE)
  /\ req' = [req EXCEPT ![r] =
       CASE @.tool \in ExecTools ->
              ExecDone([@ EXCEPT !.runs = Append(@, run), !.results = Append(@, exec(run))])
         [] @.tool = "chisel_eval" ->
              CmdReturn([@ EXCEPT !.runs = Append(@, run)], chiselEvalText(run))
         [] OTHER ->
              CmdReturn([@ EXCEPT !.runs = Append(@, run), !.tmp = "empty"],
                        chiselRunText(run))]
  /\ UNCHANGED <<anvilInstances, procs, context, docsCache, now, calls, removed>>

CmdDeliver(r) ==
  /\ req[r].pc = "returned"
  /\ req' = [req EXCEPT ![r] = CmdFresh("")]
  /\ UNCHANGED <<anvilInstances, procs, context, docsCache, now, calls, removed>>

NextExec ==
  \/ \E r \in Reqs, tool \in CmdTools : CmdCall(r, tool)
  \/ \E r \in Reqs, ok \in BOOLEAN : CmdTmpWritten(r, ok)
  \/ \E r \in Reqs, run \in Runs(FALSE) : CmdSpawnFailed(r, run)
  \/ \E r \in Reqs, run \in Runs(TRUE) : CmdExited(r, run)
  \/ \E r \in Reqs : CmdDeliver(r)

SpecExec == InitExec /\ [][NextExec]_vars

\* ======================================================= input schemas
\* A tool is registered with an inputSchema and a handler; the MCP server
\* parses the arguments of a call with the schema and runs the handler only
\* on a successful parse.  SpecInput follows calls, with well-formed and
\* ill-formed arguments, of one tool per schema:
\*   anvil_stop        port: z.number().int().positive().optional()
\*   anvil_setBalance  address: addressSchema, "rpc-url": rpcUrlSchema
\*   cast_tx           "tx-hash": txHashSchema, "rpc-url": rpcUrlSchema
\*   cast_send         "private-key": privateKeySchema, "rpc-url": rpcUrlSchema
\*   cast_balance      address: z.string(), "rpc-url": rpcUrlSchema
\* A string argument is told apart by what the regular expressions look at:
\* whether it starts with 0x, how many characters follow, whether all of
\* them are hex digits.
AddressDigits == 40
HashDigits == 64
KeyDigits == 64

Str(prefix, digits, hex) == [given |-> TRUE, prefix |-> prefix, digits |-> digits, hex |-> hex]
NoStr == [given |-> FALSE, prefix |-> "", digits |-> 0, hex |-> FALSE]
StrInputs ==
  {Str(x, d, h) : x \in {"", "0x"}, d \in {AddressDigits - 1, AddressDigits, HashDigits},
                  h \in BOOLEAN} \cup {NoStr}

UrlInputs == {"", "http://node", "not a url"}     \* "": rpc-url omitted

Port(n) == [given |-> TRUE, n |-> n]
NoPort == [given |-> FALSE, n |-> 0]
PortInputs == {NoPort, Port(-1), Port(0), Port(8545), Port(8546)}

\* Variant of addressSchema: the 0x prefix is optional, as in privateKeySchema.
addressSchemaOptionalPrefix(v) == v.given /\ v.digits = AddressDigits /\ v.hex

\* /^0x[a-fA-F0-9]{40}$/
addressSchema(v) == v.given /\ v.prefix = "0x" /\ v.digits = AddressDigits /\ v.hex

\* /^0x[a-fA-F0-9]{64}$/
txHashSchema(v) == v.given /\ v.prefix = "0x" /\ v.digits = HashDigits /\ v.hex

\* /^(0x)?[a-fA-F0-9]{64}$/, optional
privateKeySchema(v) == ~v.given \/ (v.digits = KeyDigits /\ v.hex)

\* z.string().url().optional()
rpcUrlSchema(u) == u = "" \/ u = "http://node"

\* z.number().int().positive().optional()
portSchema(x) == ~x.given \/ x.n > 0

\* z.string()
stringSchema(v) == v.given

InputTools == {"anvil_stop", "anvil_setBalance", "cast_tx", "cast_send", "cast_balance"}

Input(str, url, port) == [str |-> str, url |-> url, port |-> port]

Inputs(tool) ==
  IF tool = "anvil_stop" THEN {Input(NoStr, "", x) : x \in PortInputs}
  ELSE {Input(v, u, NoPort) : v \in StrInputs, u \in UrlInputs}

inputSchema(tool, in) ==
  CASE tool = "anvil_stop" -> portSchema(in.port)
    [] tool = "anvil_setBalance" -> addressSchema(in.str) /\ rpcUrlSchema(in.url)
    [] tool = "cast_tx" -> txHashSchema(in.str) /\ rpcUrlSchema(in.url)
    [] tool = "cast_send" -> privateKeySchema(in.str) /\ rpcUrlSchema(in.url)
    [] OTHER -> stringSchema(in.str) /\ rpcUrlSchema(in.url)

\* rejected: the arguments did not parse and the handler was not run;
\* spawns, fetches: programs spawned and HTTP requests sent by the handler.
InFresh(tool, in) ==
  [pc |-> "idle", tool |-> tool, input |-> in, rejected |-> FALSE,
   spawns |-> 0, fetches |-> 0, raised |-> FALSE, result |-> ""]

InReturn(rec, t) == [rec EXCEPT !.pc = "returned", !.result = t]

NoInput == Input(NoStr, "", NoPort)

\* One node is running and registered, as after a successful anvil_start.
InitInput ==
  /\ anvilInstances = MapSet(<<>>, DefaultPort, [port |-> DefaultPort, pid |-> 1, forkUrl |-> ""])
  /\ procs = [pid \in Pids |->
                IF pid = 1 THEN [state |-> "listening", port |-> DefaultPort, registered |-> TRUE]
                ELSE NoProc]
  /\ context = [rpcUrl |-> NoUrl]
  /\ req = [r \in Reqs |-> InFresh("", NoInput)]
  /\ calls = 0
  /\ removed = {}
  /\ docsCache = null
  /\ now = 0

\* A call arrives.  Ill-formed arguments end it here.  Otherwise the handler
\* runs to its first await: anvil_stop completes, anvil_setBalance sends its
\* JSON-RPC request, the cast tools spawn cast through exec.
Dispatch(r, tool, in, spawnOk) ==
  LET rec  == InFresh(tool, in)
      port == IF in.port.given THEN in.port.n ELSE DefaultPort
      inst == MapGet(anvilInstances, port)
      tracked == MapHas(anvilInstances, port)
      delivered == tracked /\ Alive(inst.pid)
  IN /\ Accept(r)
     /\ in \in Inputs(tool)
     /\ IF ~inputSchema(tool, in)
          THEN /\ req' = [req EXCEPT ![r] = [InReturn(rec, "invalid_params") EXCEPT !.rejected = TRUE]]
               /\ UNCHANGED <<anvilInstances, procs>>
        ELSE IF tool = "anvil_stop"
          THEN /\ req' = [req EXCEPT ![r] = InReturn(rec, StopResult(tracked, delivered))]
               /\ anvilInstances' = IF tracked THEN StopRegistry(anvilInstances, port, delivered)
                                    ELSE anvilInstances
               /\ procs' = IF tracked THEN Signalled(procs, inst.pid) ELSE procs
        ELSE IF tool = "anvil_setBalance"
          THEN /\ req' = [req EXCEPT ![r] = [rec EXCEPT !.pc = "rpc_wait", !.fetches = 1]]
               /\ UNCHANGED <<anvilInstances, procs>>
        ELSE /\ req' = [req EXCEPT ![r] =
                  IF spawnOk THEN [rec EXCEPT !.pc = "spawn", !.spawns = 1]
                  ELSE InReturn(rec, "output")]
             /\ UNCHANGED <<anvilInstances, procs>>
     /\ UNCHANGED <<context, docsCache, now, removed>>

\* The JSON-RPC request is answered, or fails.
InRpcResolved(r, ok) ==
  /\ At(r, "rpc_wait")
  /\ req' = [req EXCEPT ![r] = InReturn(@, IF ok THEN "rpc_done" ELSE "rpc_error")]
  /\ UNCHANGED <<anvilInstances, procs, context, docsCache, now, calls, removed>>

\* cast has exited; the handler returns formatOutput of the result.
InExited(r) ==
  /\ At(r, "spawn")
  /\ req' = [req EXCEPT ![r] = InReturn(@, "output")]
  /\ UNCHANGED <<anvilInstances, procs, context, docsCache, now, calls, removed>>

InDeliver(r) ==
  /\ req[r].pc = "returned"
  /\ req' = [req EXCEPT ![r] = InFresh("", NoInput)]
  /\ UNCHANGED <<anvilInstances, procs, context, docsCache, now, calls, removed>>

NextInput ==
  \/ \E r \in Reqs, tool \in InputTools, spawnOk \in BOOLEAN :
       \E in \in Inputs(tool) : Dispatch(r, tool, in, spawnOk)
  \/ \E r \in Reqs, ok \in BOOLEAN : InRpcResolved(r, ok)
  \/ \E r \in Reqs : InExited(r)
  \/ \E r \in Reqs : InDeliver(r)

SpecInput == InitInput /\ [][NextInput]_vars

\* ============================================== JSON-RPC tool handlers
\* SpecRpc follows the node-control tools from the call to the returned
\* text: the endpoint getRpcUrl picks, the request jsonRpcCall posts, the
\* response and what jsonRpcCall makes of it.
\*   anvil_mine                   params [hex(blocks)] or [hex(blocks), hex(interval)]
\*   anvil_setNextBlockTimestamp  params [timestamp]
\*   anvil_increaseTime           params [seconds]
\*   anvil_snapshot               params [], the result is shown
MaxNum == 255                    \* largest numeric argument

Nums == {1, 16, MaxNum}

HexDigits == <<"0", "1", "2", "3", "4", "5", "6", "7", "8", "9", "a", "b", "c", "d", "e", "f">>

\* Number.prototype.toString(16)
RECURSIVE toString16(_)
toString16(n) ==
  IF n < 16 THEN <<HexDigits[n + 1]>>
  ELSE toString16(n \div 16) \o <<HexDigits[(n % 16) + 1]>>

\* An element of the params array: a JSON number, or a JSON string made of
\* a prefix and digits.
NumParam(n) == [kind |-> "number", n |-> n, prefix |-> "", digits |-> <<>>]
HexParam(n) == [kind |-> "string", n |-> 0, prefix |-> "0x", digits |-> toString16(n)]

RpcTools == {"anvil_mine", "anvil_setNextBlockTimestamp", "anvil_increaseTime", "anvil_snapshot"}

\* a: blocks, timestamp or seconds; b: interval; 0 stands for an omitted one.
RpcArgs(tool) ==
  CASE tool = "anvil_mine" -> {<<a, b>> : a \in Nums \cup {0}, b \in {0, MaxNum}}
    [] tool = "anvil_snapshot" -> {<<0, 0>>}
    [] OTHER -> {<<a, 0>> : a \in Nums}

rpcMethod(tool) ==
  CASE tool = "anvil_mine" -> "anvil_mine"
    [] tool = "anvil_setNextBlockTimestamp" -> "evm_setNextBlockTimestamp"
    [] tool = "anvil_increaseTime" -> "evm_increaseTime"
    [] OTHER -> "evm_snapshot"

rpcParams(tool, a, b) ==
  LET blocks == IF a = 0 THEN 1 ELSE a IN
  CASE tool = "anvil_mine" ->
         IF b # 0 THEN <<HexParam(blocks), HexParam(b)>> ELSE <<HexParam(blocks)>>
    [] tool = "anvil_snapshot" -> <<>>
    [] OTHER -> <<NumParam(a)>>

\* The body jsonRpcCall posts.
Request(url, method, params) ==
  [url |-> url, jsonrpc |-> "2.0", id |-> 1, method |-> method, params |-> params]

\* What comes back: the connection fails, the body is not JSON, or it is a
\* JSON object with or without an error member and a result member.
Response(kind, hasError, message, result) ==
  [kind |-> kind, hasError |-> hasError, message |-> message, result |-> result]

Responses ==
  {Response("refused", FALSE, "", ""), Response("unparsable", FALSE, "", "")}
    \cup {Response("json", FALSE, "", v) : v \in {"", "0x1"}}
    \cup {Response("json", TRUE, "boom", v) : v \in {"", "0x1"}}

Throw(message) == [ok |-> FALSE, value |-> message]
Resolve(value) == [ok |-> TRUE, value |-> value]

\* Variant of jsonRpcCall: a result member wins over an error member.
jsonRpcCallResultFirst(resp) ==
  CASE resp.kind = "refused" -> Throw("fetch failed")
    [] resp.kind = "unparsable" -> Throw("not JSON")
    [] resp.result # "" -> Resolve(resp.result)
    [] resp.hasError -> Throw(resp.message)
    [] OTHER -> Resolve(resp.result)

\* jsonRpcCall: what the awaiting handler gets for a response.
jsonRpcCall(resp) ==
  CASE resp.kind = "refused" -> Throw("fetch failed")
    [] resp.kind = "unparsable" -> Throw("not JSON")
    [] resp.hasError -> Throw(resp.message)
    [] OTHER -> Resolve(resp.result)

\* The text of the handler, from its arguments and the outcome of the call.
rpcText(tool, a, outcome) ==
  IF ~outcome.ok THEN
    CASE tool = "anvil_mine" -> Line("Error mining blocks: ", outcome.value, 0)
      [] tool = "anvil_snapshot" -> Line("Error creating snapshot: ", outcome.value, 0)
      [] OTHER -> Line("Error: ", outcome.value, 0)
  ELSE
    CASE tool = "anvil_mine" -> Line("Mined block(s): ", "", IF a = 0 THEN 1 ELSE a)
      [] tool = "anvil_snapshot" -> Line("Snapshot created with ID: ", outcome.value, 0)
      [] tool = "anvil_setNextBlockTimestamp" -> Line("Next block timestamp set to ", "", a)
      [] OTHER -> Line("Time increased by seconds: ", "", a)

NoResponse == Response("", FALSE, "", "")

\* sent: the requests posted for this call; response, outcome: what came
\* back and what jsonRpcCall made of it.
RpcFresh(tool) ==
  [pc |-> "idle", tool |-> tool, a |-> 0, b |-> 0, rpcUrl |-> NoUrl, sent |-> <<>>,
   response |-> NoResponse, outcome |-> Resolve(""), output |-> <<>>, raised |-> FALSE]

InitRpc ==
  /\ anvilInstances = <<>>
  /\ procs = [pid \in Pids |-> NoProc]
  /\ context \in [rpcUrl : {NoUrl, Url("ctx", 8545)}]   \* RPC_URL unset or set
  /\ req = [r \in Reqs |-> RpcFresh("")]
  /\ calls = 0
  /\ removed = {}
  /\ docsCache = null
  /\ now = 0

\* The handler resolves the endpoint and jsonRpcCall posts the request.
RpcCall(r, tool, a, b, rpcUrl) ==
  /\ Accept(r)
  /\ <<a, b>> \in RpcArgs(tool)
  /\ req' = [req EXCEPT ![r] =
       [RpcFresh(tool) EXCEPT
          !.pc = "rpc_wait", !.a = a, !.b = b, !.rpcUrl = rpcUrl,
          !.sent = <<Request(getRpcUrl(rpcUrl, context, 0), rpcMethod(tool),
                             rpcParams(tool, a, b))>>]]
  /\ UNCHANGED <<anvilInstances, procs, context, docsCache, now, removed>>

\* fetch and response.json() settle; the handler returns its text.
RpcAnswered(r, resp) ==
  /\ At(r, "rpc_wait")
  /\ resp \in Responses
  /\ req' = [req EXCEPT ![r] =
       [@ EXCEPT !.pc = "returned", !.response = resp, !.outcome = jsonRpcCall(resp),
                 !.output = <<rpcText(req[r].tool, req[r].a, jsonRpcCall(resp))>>]]
  /\ UNCHANGED <<anvilInstances, procs, context, docsCache, now, calls, removed>>

RpcDeliver(r) ==
  /\ req[r].pc = "returned"
  /\ req' = [req EXCEPT ![r] = RpcFresh("")]
  /\ UNCHANGED <<anvilInstances, procs, context, docsCache, now, calls, removed>>

NextRpc ==
  \/ \E r \in Reqs, tool \in RpcTools, a \in Nums \cup {0}, b \in {0, MaxNum},
        rpcUrl \in RpcUrlArgs : RpcCall(r, tool, a, b, rpcUrl)
  \/ \E r \in Reqs, resp \in Responses : RpcAnswered(r, resp)
  \/ \E r \in Reqs : RpcDeliver(r)

SpecRpc == InitRpc /\ [][NextRpc]_vars

\* ================================================== argument vectors
\* SpecArgs follows the forge and cast handlers from the parsed options to
\* the argument vector they spawn: the defaults they fill in from the
\* environment, buildArgs, and the positional arguments around it.
\*   forge_test    buildArgs(options)
\*   forge_script  buildArgs(options) after the script path
\*   forge_create  buildArgs(options) after the contract
\*   cast_send     rpc-url and private-key resolved, then buildArgs(options)
\* An options object is the sequence of its [key, value] entries in
\* Object.entries order.
MaxOpts == 2                     \* entries of an options object of forge_test

Undefined == [kind |-> "undefined", b |-> FALSE, s |-> "", n |-> 0]
BoolV(b) == [kind |-> "boolean", b |-> b, s |-> "", n |-> 0]
StrV(str) == [kind |-> "string", b |-> FALSE, s |-> str, n |-> 0]
NumV(n) == [kind |-> "number", b |-> FALSE, s |-> "", n |-> n]

Entry(key, value) == [key |-> key, value |-> value]

\* String(value) for a string or a number
String(v) == IF v.kind = "number" THEN ToString(v.n) ELSE v.s

\* Variant of buildArgs: every flag gets two dashes.
RECURSIVE buildArgsDoubleDash(_)
buildArgsDoubleDash(options) ==
  IF options = <<>> THEN <<>>
  ELSE LET key   == Head(options).key
           value == Head(options).value
           flag  == "--" \o key
       IN (IF value = Undefined \/ value = BoolV(FALSE) THEN <<>>
           ELSE IF value = BoolV(TRUE) THEN <<flag>>
           ELSE <<flag, String(value)>>)
          \o buildArgsDoubleDash(Tail(options))

RECURSIVE buildArgs(_)
buildArgs(options) ==
  IF options = <<>> THEN <<>>
  ELSE LET key   == Head(options).key
           value == Head(options).value
           flag  == IF Len(key) = 1 THEN "-" \o key ELSE "--" \o key
       IN (IF value = Undefined \/ value = BoolV(FALSE) THEN <<>>
           ELSE IF value = BoolV(TRUE) THEN <<flag>>
           ELSE <<flag, String(value)>>)
          \o buildArgs(Tail(options))

\* cast.ts: rpcUrl || context.rpcUrl, privateKey || context.privateKey
Truthy(v) == v # Undefined /\ v # BoolV(FALSE) /\ v # StrV("") /\ v # NumV(0)
castGetRpcUrl(rpcUrl, ctx) ==
  IF Truthy(rpcUrl) THEN rpcUrl
  ELSE IF ctx.rpcUrl # "" THEN StrV(ctx.rpcUrl) ELSE Undefined
getPrivateKey(privateKey, ctx) ==
  IF Truthy(privateKey) THEN privateKey
  ELSE IF ctx.privateKey # "" THEN StrV(ctx.privateKey) ELSE Undefined

\* options[key]; options[key] = value
ObjGet(options, key) ==
  IF MapIndex(options, key) = 0 THEN Undefined ELSE options[MapIndex(options, key)].value
ObjSet(options, key, value) == MapSet(options, key, value)

ArgsTools == {"forge_test", "forge_script", "forge_create", "cast_send"}

\* The options of forge_test: any entries with distinct keys, in any order.
TestEntries ==
  {Entry("match-test", v) : v \in {StrV("t"), StrV(""), Undefined}}
    \cup {Entry("v", v) : v \in {NumV(0), NumV(3), Undefined}}
    \cup {Entry("gas_report", v) : v \in {BoolV(TRUE), BoolV(FALSE), Undefined}}

TestOptionSets ==
  {o \in UNION {[1..n -> TestEntries] : n \in 0..MaxOpts} :
     \A i, j \in 1..Len(o) : o[i].key = o[j].key => i = j}

\* The options of the deploying tools: rpc-url, private-key and one switch,
\* each given or omitted, in the order of the schema.
TxFlag(tool) ==
  CASE tool = "forge_script" -> "broadcast"
    [] tool = "forge_create" -> "legacy"
    [] OTHER -> "json"

TxOptionSets(tool) ==
  LET full == <<Entry("rpc-url", StrV("http://node")), Entry("private-key", StrV("0xkey")),
                Entry(TxFlag(tool), BoolV(TRUE))>>
  IN {SelectSeq(full, LAMBDA e : e.key \in K) :
        K \in SUBSET {"rpc-url", "private-key", TxFlag(tool)}}

OptionSets(tool) == IF tool = "forge_test" THEN TestOptionSets ELSE TxOptionSets(tool)

\* The options object the handler passes to buildArgs.
passedOptions(tool, options, ctx) ==
  IF tool = "cast_send"
    THEN LET o1 == ObjSet(options, "rpc-url", castGetRpcUrl(ObjGet(options, "rpc-url"), ctx))
         IN ObjSet(o1, "private-key", getPrivateKey(ObjGet(o1, "private-key"), ctx))
  ELSE options

\* The command the handler hands to exec.
argv(tool, args) ==
  CASE tool = "forge_test" -> <<"forge", "test">> \o args
    [] tool = "forge_script" -> <<"forge", "script", "script/Deploy.s.sol">> \o args
    [] tool = "forge_create" -> <<"forge", "create", "Counter">> \o args
    [] OTHER -> <<"cast", "send", "0xto", "f()">> \o args

\* options: as parsed from the call; passed: as given to buildArgs;
\* args: what buildArgs returned; command: what was handed to exec.
ArgsFresh(tool) ==
  [pc |-> "idle", tool |-> tool, options |-> <<>>, passed |-> <<>>, args |-> <<>>,
   command |-> <<>>, output |-> <<>>, raised |-> FALSE]

\* The runs these handlers are followed for.
ArgsRuns(spawnOk) ==
  IF spawnOk THEN {Run(TRUE, "", "out", "", 0), Run(TRUE, "", "", "out", 1)}
  ELSE {Run(FALSE, "ENOENT", "", "", 0)}

\* RPC_URL and PRIVATE_KEY are each set or not; requests are handled one at
\* a time (these handlers share no state).
ArgsReqs == {"r1"}

InitArgs ==
  /\ anvilInstances = <<>>
  /\ procs = [pid \in Pids |-> NoProc]
  /\ context \in [rpcUrl : {"", "http://env"}, privateKey : {"", "0xenvkey"}]
  /\ req = [r \in Reqs |-> ArgsFresh("")]
  /\ calls = 0
  /\ removed = {}
  /\ docsCache = null
  /\ now = 0

\* The handler builds the argument vector and exec spawns the program; a
\* failed spawn is reported at once.
ArgsCall(r, tool, options, spawnOk) ==
  LET passed == passedOptions(tool, options, context)
      args   == buildArgs(passed)
      rec    == [ArgsFresh(tool) EXCEPT !.options = options, !.passed = passed,
                                        !.args = args, !.command = argv(tool, args)]
  IN /\ Accept(r)
     /\ options \in OptionSets(tool)
     /\ req' = [req EXCEPT ![r] =
          IF spawnOk THEN [rec EXCEPT !.pc = "spawn"]
          ELSE [rec EXCEPT !.pc = "returned",
                           !.output = formatOutput(exec(CHOOSE x \in ArgsRuns(FALSE) : TRUE))]]
     /\ UNCHANGED <<anvilInstances, procs, context, docsCache, now, removed>>

ArgsExited(r, run) ==
  /\ At(r, "spawn")
  /\ run \in ArgsRuns(TRUE)
  /\ req' = [req EXCEPT ![r] = [@ EXCEPT !.pc = "returned", !.output = formatOutput(exec(run))]]
  /\ UNCHANGED <<anvilInstances, procs, context, docsCache, now, calls, removed>>

ArgsDeliver(r) ==
  /\ req[r].pc = "returned"
  /\ req' = [req EXCEPT ![r] = ArgsFresh("")]
  /\ UNCHANGED <<anvilInstances, procs, context, docsCache, now, calls, removed>>

NextArgs ==
  \/ \E r \in ArgsReqs, tool \in ArgsTools, spawnOk \in BOOLEAN :
       \E options \in OptionSets(tool) : ArgsCall(r, tool, options, spawnOk)
  \/ \E r \in ArgsReqs, run \in ArgsRuns(TRUE) : ArgsExited(r, run)
  \/ \E r \in ArgsReqs : ArgsDeliver(r)

SpecArgs == InitArgs /\ [][NextArgs]_vars

\* ================================================ documentation cache
\* SpecDocs follows reads of the foundry://docs resource: fetchDocs serves
\* the cache while it is fresh, fetches the documentation otherwise, and
\* falls back to the cache when the fetch fails.  Time passes between the
\* segments of the handlers.
MaxHours == 3                    \* how long the clock runs, in units of CACHE_TTL

CACHE_TTL == 3600000            \* 1000 * 60 * 60 ms: one hour

Contents == {"", "docs v1", "docs v2"}          \* bodies the server may send

\* What one fetch of the documentation comes to: fetch rejects, the status
\* is not OK, response.text() rejects, or the body arrives.
Fetched(kind, body) == [kind |-> kind, body |-> body]
NoFetch == Fetched("", "")
FetchFailures == {Fetched(k, "") : k \in {"rejected", "status_500", "text_rejected"}}

Cached(content, timestamp) == [set |-> TRUE, content |-> content, timestamp |-> timestamp]

\* Variant of the freshness test: the window is one millisecond shorter.
CacheFreshShort(cache, t) == cache.set /\ t - cache.timestamp < CACHE_TTL - 1

\* docsCache && Date.now() - docsCache.timestamp < CACHE_TTL
CacheFresh(cache, t) == cache.set /\ t - cache.timestamp < CACHE_TTL

\* Variant of the catch block: a failed fetch clears the cache.
CacheAfterFailureCleared(cache) == null

\* The catch block assigns nothing to docsCache.
CacheAfterFailure(cache) == cache

\* The catch block: the stale content if there is a cache, the error if not.
fetchDocsCatch(cache, fetched) ==
  IF cache.set THEN Resolve(cache.content) ELSE Throw(fetched.kind)

\* The text of the resource, from what fetchDocs resolved or rejected with.
docsText(outcome) ==
  IF outcome.ok THEN Line("", outcome.value, 0)
  ELSE Line("Failed to fetch documentation: ", outcome.value, 0)

\* fetches: requests this read has sent; fetched: what its fetch came to;
\* outcome: what fetchDocs returned to the resource callback.
DocsFresh(tool) ==
  [pc |-> "idle", tool |-> tool, fetches |-> 0, fetched |-> NoFetch,
   outcome |-> Resolve(""), output |-> <<>>, raised |-> FALSE]

DocsReturn(rec, outcome) ==
  [rec EXCEPT !.pc = "returned", !.outcome = outcome, !.output = <<docsText(outcome)>>]

InitDocs ==
  /\ anvilInstances = <<>>
  /\ procs = [pid \in Pids |-> NoProc]
  /\ context = [rpcUrl |-> NoUrl]
  /\ req = [r \in Reqs |-> DocsFresh("")]
  /\ calls = 0
  /\ removed = {}
  /\ docsCache = null
  /\ now = 0

\* A read of foundry://docs: fetchDocs up to its first await.
DocsRead(r) ==
  /\ Accept(r)
  /\ req' = [req EXCEPT ![r] =
       IF CacheFresh(docsCache, now)
         THEN DocsReturn(DocsFresh("foundry_docs"), Resolve(docsCache.content))
       ELSE [DocsFresh("foundry_docs") EXCEPT !.pc = "fetch_wait", !.fetches = 1]]
  /\ UNCHANGED <<anvilInstances, procs, context, removed, docsCache, now>>

\* await fetch(FOUNDRY_DOCS_URL) settles: the response is OK and the handler
\* goes on to read the body, or the catch block runs.
DocsFetched(r, ok, failure) ==
  /\ At(r, "fetch_wait")
  /\ failure \in {Fetched("rejected", ""), Fetched("status_500", "")}
  /\ req' = [req EXCEPT ![r] =
       IF ok THEN [@ EXCEPT !.pc = "text_wait"]
       ELSE DocsReturn([@ EXCEPT !.fetched = failure], fetchDocsCatch(docsCache, failure))]
  /\ docsCache' = IF ok THEN docsCache ELSE CacheAfterFailure(docsCache)
  /\ UNCHANGED <<anvilInstances, procs, context, calls, removed, now>>

\* await response.text() settles: the body is cached with the time of its
\* arrival and returned, or the catch block runs.
DocsBodyRead(r, fetched) ==
  /\ At(r, "text_wait")
  /\ fetched \in {Fetched("ok", c) : c \in Contents} \cup {Fetched("text_rejected", "")}
  /\ IF fetched.kind = "ok"
       THEN /\ docsCache' = Cached(fetched.body, now)
            /\ req' = [req EXCEPT ![r] =
                 DocsReturn([@ EXCEPT !.fetched = fetched], Resolve(fetched.body))]
       ELSE /\ docsCache' = CacheAfterFailure(docsCache)
            /\ req' = [req EXCEPT ![r] =
                 DocsReturn([@ EXCEPT !.fetched = fetched], fetchDocsCatch(docsCache, fetched))]
  /\ UNCHANGED <<anvilInstances, procs, context, calls, removed, now>>

DocsDeliver(r) ==
  /\ req[r].pc = "returned"
  /\ req' = [req EXCEPT ![r] = DocsFresh("")]
  /\ UNCHANGED <<anvilInstances, procs, context, calls, removed, docsCache, now>>

\* Time passes while the event loop is idle or waits.
Tick(d) ==
  /\ Quiet
  /\ now + d <= MaxHours * CACHE_TTL
  /\ now' = now + d
  /\ UNCHANGED <<anvilInstances, procs, context, req, calls, removed, docsCache>>

NextDocs ==
  \/ \E r \in Reqs : DocsRead(r)
  \/ \E r \in Reqs, ok \in BOOLEAN, failure \in FetchFailures : DocsFetched(r, ok, failure)
  \/ \E r \in Reqs, fetched \in FetchFailures \cup {Fetched("ok", c) : c \in Contents} :
       DocsBodyRead(r, fetched)
  \/ \E r \in Reqs : DocsDeliver(r)
  \/ \E d \in {CACHE_TTL - 1, CACHE_TTL} : Tick(d)

SpecDocs == InitDocs /\ [][NextDocs]_vars

\* ================================================================ claims
Entries(m, port) == {m[i].value : i \in {j \in 1..Len(m) : m[j].key = port}}
Tracked(m, port) == Entries(m, port) # {}
Last(q) == q[Len(q)]

\* Steps of request r: the one that accepts it with a given tool, the one
\* in which its handler returns, any segment of its handler.
Began(r, tool) == req[r].pc = "idle" /\ req'[r].pc # "idle" /\ req'[r].tool = tool
Returns(r) == req[r].pc # "returned" /\ req'[r].pc = "returned"
OwnStep(r) == req'[r].pc # req[r].pc \/ req'[r].probed # req[r].probed

\* C1: an anvil_start for a port whose entry (registered by an earlier,
\* completed start and not removed since) is in the registry returns
\* "already running" at once: no process is spawned, no probe is sent, and
\* the registry still holds exactly one entry for the port, with the same
\* pid and forkUrl.
C1_SecondStartAlreadyRunning ==
  [][\A r \in Reqs :
       (Began(r, "anvil_start") /\ Tracked(anvilInstances, req'[r].port)) =>
         /\ req'[r].pc = "returned"
         /\ req'[r].result.text = "already_running"
         /\ req'[r].probes = 0
         /\ req'[r].pid = 0
         /\ procs' = procs
         /\ Entries(anvilInstances', req'[r].port) = Entries(anvilInstances, req'[r].port)
         /\ Cardinality({i \in 1..Len(anvilInstances') :
                           anvilInstances'[i].key = req'[r].port}) = 1]_vars

C1_Witness ==
  \E r \in Reqs :
    /\ req[r].pc = "returned"
    /\ req[r].tool = "anvil_start"
    /\ req[r].result.text = "already_running"
    /\ \E inst \in Entries(anvilInstances, req[r].port) : procs[inst.pid].registered

\* C2: when the probe of anvil_start fails, the call signals the process it
\* spawned, which is then not running, returns the failure text, and has not
\* written to the registry: the returning step leaves the registry as it
\* was and no entry holds the pid of the call.
C2_FailedStartLeavesNoEntry ==
  [][\A r \in Reqs :
       (req[r].pc = "start_probe" /\ Returns(r) /\ ~Last(req'[r].probed).ok) =>
         /\ req'[r].result.text = "start_failed"
         /\ anvilInstances' = anvilInstances
         /\ req'[r].writes = <<>>
         /\ req'[r].kills = <<req[r].pid>>
         /\ procs'[req[r].pid].state = "exited"
         /\ \A i \in 1..Len(anvilInstances') :
              anvilInstances'[i].value.pid # req[r].pid]_vars

C2_Witness ==
  \E r \in Reqs :
    /\ req[r].pc = "returned"
    /\ req[r].result.text = "start_failed"
    /\ req[r].kills = <<req[r].pid>>
    /\ procs[req[r].pid].state = "exited"
    /\ Len(anvilInstances) > 0

\* C3: anvil_stop for a tracked port attempts exactly one signal, to the
\* tracked pid, and when it returns the registry has no entry for the port,
\* whether the signal was delivered or process.kill threw.
C3_StopAlwaysRemoves ==
  [][\A r \in Reqs :
       (Began(r, "anvil_stop") /\ Tracked(anvilInstances, req'[r].port)) =>
         /\ req'[r].pc = "returned"
         /\ req'[r].result.text \in {"stopped", "error_stopping"}
         /\ ~Tracked(anvilInstances', req'[r].port)
         /\ \E inst \in Entries(anvilInstances, req'[r].port) :
              req'[r].kills = <<inst.pid>>]_vars

C3_Witness ==
  \E r \in Reqs :
    /\ req[r].pc = "returned"
    /\ req[r].tool = "anvil_stop"
    /\ req[r].result.text = "error_stopping"
    /\ Len(req[r].kills) = 1
    /\ ~Tracked(anvilInstances, req[r].port)

\* C4: anvil_stop for a port without an entry returns "not tracked", signals
\* no process and leaves the registry unchanged.
C4_StopUntrackedNoEffect ==
  [][\A r \in Reqs :
       (Began(r, "anvil_stop") /\ ~Tracked(anvilInstances, req'[r].port)) =>
         /\ req'[r].pc = "returned"
         /\ req'[r].result.text = "not_tracked"
         /\ req'[r].kills = <<>>
         /\ procs' = procs
         /\ anvilInstances' = anvilInstances]_vars

C4_Witness ==
  \E r \in Reqs :
    /\ req[r].pc = "returned"
    /\ req[r].tool = "anvil_stop"
    /\ req[r].result.text = "not_tracked"
    /\ Len(anvilInstances) > 0
    /\ \E pid \in Pids : Alive(pid)

\* C5 as stated: once a status call has removed the entry of a port after a
\* failed probe, a following anvil_status for that port reports that no
\* instance is running and shows neither pid nor fork URL.
C5_NextStatusSaysNoInstance ==
  \A r \in Reqs :
    (/\ req[r].pc = "returned"
     /\ req[r].tool = "anvil_status"
     /\ req[r].port # 0
     /\ req[r].afterRemoval) =>
      /\ req[r].result.text = "no_instance"
      /\ req[r].result.pid = 0
      /\ req[r].result.forkUrl = ""

\* C5 amended: anvil_status for a tracked port whose probe fails removes the
\* entry and reports "not responding"; a following anvil_status for that
\* port shows neither pid nor fork URL, and reports "no instance running"
\* when its own probe fails and "running (untracked)" when its own probe
\* succeeds.
C5_StatusSelfHeals ==
  [][\A r \in Reqs :
       /\ (/\ req[r].pc = "status_probe"
           /\ Returns(r)
           /\ req[r].instance # NoInstance
           /\ ~Last(req'[r].probed).ok) =>
            /\ ~Tracked(anvilInstances', req[r].port)
            /\ req'[r].result.text = "not_responding"
            /\ req[r].port \in removed'
       /\ (/\ Returns(r)
           /\ req'[r].tool = "anvil_status"
           /\ req'[r].port # 0
           /\ req'[r].afterRemoval) =>
            /\ req'[r].result.pid = 0
            /\ req'[r].result.forkUrl = ""
            /\ req'[r].result.text =
                 IF Last(req'[r].probed).ok THEN "running_untracked" ELSE "no_instance"]_vars

C5_Witness ==
  \E r \in Reqs :
    /\ req[r].pc = "returned"
    /\ req[r].tool = "anvil_status"
    /\ req[r].afterRemoval
    /\ req[r].result.text = "no_instance"
    /\ \E pid \in Pids : procs[pid].registered

\* C6: anvil_status for an untracked port sends one probe and reports its
\* outcome; neither accepting the call nor resolving the probe changes the
\* registry, whether the probe succeeds or fails.
C6_StatusUntrackedNeverRegisters ==
  [][\A r \in Reqs :
       /\ Began(r, "anvil_status") => anvilInstances' = anvilInstances
       /\ (/\ req[r].pc = "status_probe"
           /\ req[r].instance = NoInstance
           /\ Returns(r)) =>
            /\ req'[r].probes = 1
            /\ Len(req'[r].probed) = 1
            /\ req'[r].writes = <<>>
            /\ anvilInstances' = anvilInstances
            /\ req'[r].result.text =
                 IF Last(req'[r].probed).ok THEN "running_untracked" ELSE "no_instance"]_vars

C6_Witness ==
  \E r \in Reqs :
    /\ req[r].pc = "returned"
    /\ req[r].tool = "anvil_status"
    /\ req[r].result.text = "running_untracked"
    /\ ~Tracked(anvilInstances, req[r].port)

\* C7: in anvil_status without a port, a probe that fails removes the entry
\* of its port and no other entry, a probe that succeeds leaves the registry
\* as it is, and when the call returns every port in the registry has been
\* probed by it, the last time with success.
C7_StatusAllHeals ==
  [][\A r \in Reqs :
       (req[r].pc = "statusall_probe" /\ req'[r].probed # req[r].probed) =>
         LET p  == req[r].p
             ok == Last(req'[r].probed).ok
         IN /\ Last(req'[r].probed).port = p
            /\ ok => anvilInstances' = anvilInstances
            /\ ~ok => /\ ~Tracked(anvilInstances', p)
                      /\ \A q \in Ports \ {p} :
                           Entries(anvilInstances', q) = Entries(anvilInstances, q)
            /\ req'[r].pc = "returned" =>
                 \A k \in MapKeys(anvilInstances') :
                   \E i \in 1..Len(req'[r].probed) :
                     /\ req'[r].probed[i].port = k
                     /\ req'[r].probed[i].ok
                     /\ \A j \in (i + 1)..Len(req'[r].probed) :
                          req'[r].probed[j].port # k]_vars

C7_Witness ==
  \E r \in Reqs :
    /\ req[r].pc = "returned"
    /\ req[r].result.text = "statuses"
    /\ \E i, j \in 1..Len(req[r].probed) :
         /\ i < j
         /\ ~req[r].probed[i].ok
         /\ req[r].probed[j].ok
         /\ ~Tracked(anvilInstances, req[r].probed[i].port)
         /\ Tracked(anvilInstances, req[r].probed[j].port)

\* C8: the registry never holds two entries for one port, and every entry
\* is stored under its own port.
C8_OneInstancePerPort ==
  \A i, j \in 1..Len(anvilInstances) :
    /\ anvilInstances[i].key = anvilInstances[j].key => i = j
    /\ anvilInstances[i].value.port = anvilInstances[i].key

\* Two overlapping starts for one port have both registered.
C8_Witness ==
  /\ Len(anvilInstances) = 1
  /\ \E a, b \in Pids : a # b /\ procs[a].registered /\ procs[b].registered
  /\ calls = 2

\* C9: the registry is empty at start-up; a step that changes it belongs to
\* an anvil_start, anvil_stop or anvil_status call, and no step of a node
\* control call over JSON-RPC or of a forge/cast/chisel/help command changes
\* it, whether the call succeeds or fails.
C9_OnlyLifecycleWrites ==
  /\ anvilInstances = <<>>
  /\ [][/\ anvilInstances' # anvilInstances =>
             \E r \in Reqs :
               /\ OwnStep(r)
               /\ req'[r].tool \in {"anvil_start", "anvil_stop", "anvil_status"}
        /\ \A r \in Reqs :
             (OwnStep(r) /\ req'[r].tool \in {"anvil_rpc", "exec"}) =>
               anvilInstances' = anvilInstances]_vars

C9_Witness ==
  \E r \in Reqs :
    /\ req[r].pc = "returned"
    /\ req[r].tool = "anvil_rpc"
    /\ req[r].result.text = "rpc_error"
    /\ Tracked(anvilInstances, DefaultPort)

\* C10: a process that has been registered is signalled only by an
\* anvil_stop call for the port it is registered under; no step of a start,
\* status, JSON-RPC or command call changes the state of a registered
\* process.
C10_OnlyStopSignalsRegistered ==
  [][\A r \in Reqs :
       /\ Returns(r) =>
            \A i \in 1..Len(req'[r].kills) :
              procs[req'[r].kills[i]].registered =>
                /\ req'[r].tool = "anvil_stop"
                /\ \E inst \in Entries(anvilInstances, req'[r].port) :
                     inst.pid = req'[r].kills[i]
       /\ (OwnStep(r) /\ req'[r].tool # "anvil_stop") =>
            \A pid \in Pids : procs[pid].registered => procs'[pid] = procs[pid]]_vars

\* A status call has removed the entry of a process that is still running.
C10_Witness ==
  \E pid \in Pids :
    /\ Alive(pid)
    /\ procs[pid].registered
    /\ procs[pid].port \in removed
    /\ ~Tracked(anvilInstances, procs[pid].port)

\* ------------------------------------------------------------------ C11
\* C11: exec never raises and yields exactly one CommandResult per
\* invocation: a handler built on exec has one result for each program it
\* ran, returns without raising once it has them all, and the result of a
\* run that could not be spawned is success = false, exitCode = 1, empty
\* stdout and the (non-empty) failure description as stderr.
C11_ExecNeverRaises ==
  \A r \in Reqs :
    LET q == req[r] IN
    q.tool \in ExecTools =>
      /\ Len(q.results) = Len(q.runs)
      /\ ~q.raised
      /\ q.pc = "returned" => Len(q.results) = ExecCalls(q.tool)
      /\ \A i \in 1..Len(q.runs) :
           ~q.runs[i].spawned =>
             /\ q.runs[i].error # ""
             /\ q.results[i] = [success |-> FALSE, stdout |-> "",
                                stderr |-> q.runs[i].error, exitCode |-> 1]

\* A handler built on exec has returned after its program could not be spawned.
C11_Witness ==
  \E r \in Reqs :
    /\ req[r].pc = "returned"
    /\ req[r].tool = "forge_build"
    /\ ~req[r].runs[1].spawned
    /\ req[r].output = <<Line("Error: ", req[r].runs[1].error, 0), Line("Exit code: ", "", 1)>>

\* ------------------------------------------------------------------ C12
\* C12: every CommandResult exec produces, for a program that ran and for
\* one that could not be spawned, has success equal to (exitCode = 0).
C12_SuccessIffExitZero ==
  \A r \in Reqs : \A i \in 1..Len(req[r].results) :
    req[r].results[i].success <=> (req[r].results[i].exitCode = 0)

\* One invocation holds results of the three kinds: a program that could not
\* be spawned, one that exited with 0 and one that exited with another code.
C12_Witness ==
  \E r \in Reqs : \E i, j, k \in 1..Len(req[r].results) :
    /\ ~req[r].runs[i].spawned
    /\ req[r].runs[j].spawned /\ req[r].runs[j].exitCode = 0 /\ req[r].results[j].success
    /\ req[r].runs[k].spawned /\ req[r].runs[k].exitCode # 0 /\ ~req[r].results[k].success

\* ------------------------------------------------------------------ C13
\* C13: no tool handler raises to its caller: whatever fails (the program
\* cannot be spawned, the connection is refused, the response is an error,
\* the exit code is not 0), the handler returns a text.
\* anvil_start calls Bun.spawn before its try block, so a missing anvil
\* binary makes the handler raise; chisel_eval and chisel_run do the same
\* with their shell (CmdSpawnFailed, CmdTmpWritten under SpecExec).
C13_NoHandlerRaises ==
  \A r \in Reqs : ~req[r].raised

\* ------------------------------------------------------------------ C14
\* C14: when a program run for a tool exits with a code other than 0, the
\* text the tool returns carries what the program wrote (stderr, or stdout
\* when stderr is empty) and the numeric exit code.
\* formatOutput does this; chisel_eval, chisel_run and
\* foundry_list_commands build their own "Error: ..." text without the
\* code, and foundry_version reports such a program as "not installed".
C14_NonzeroExitReported ==
  \A r \in Reqs :
    (req[r].pc = "returned" /\ ~req[r].raised) =>
      \A i \in 1..Len(req[r].runs) :
        LET run == req[r].runs[i]
            out == req[r].output
            msg == Or(trim(run.stderr), trim(run.stdout))
        IN (run.spawned /\ run.exitCode # 0) =>
             /\ \E k \in 1..Len(out) : out[k] = Line("Exit code: ", "", run.exitCode)
             /\ msg # "" => \E k \in 1..Len(out) : out[k].str = msg

\* ------------------------------------------------------------------ C15
\* C15: a call whose arguments violate the shape its tool declares (an
\* address that is not 0x and 40 hex digits, a transaction hash that is not
\* 0x and 64 hex digits, a private key that is not 64 hex digits after an
\* optional 0x, an rpc-url that is not a URL, a port that is not positive)
\* is rejected before its handler spawns a program or sends a request, and
\* leaves the registry and the registered processes as they were.
C15_Violates(tool, in) ==
  LET v == in.str IN
  \/ tool = "anvil_setBalance" /\ ~(v.given /\ v.prefix = "0x" /\ v.digits = 40 /\ v.hex)
  \/ tool = "cast_tx" /\ ~(v.given /\ v.prefix = "0x" /\ v.digits = 64 /\ v.hex)
  \/ tool = "cast_send" /\ v.given /\ ~(v.digits = 64 /\ v.hex)
  \/ tool # "anvil_stop" /\ in.url = "not a url"
  \/ tool = "anvil_stop" /\ in.port.given /\ in.port.n <= 0

C15_InvalidInputRejected ==
  [][\A r \in Reqs :
       (req[r].pc = "idle" /\ req'[r].pc # "idle"
          /\ C15_Violates(req'[r].tool, req'[r].input)) =>
         /\ req'[r].pc = "returned" /\ req'[r].rejected
         /\ req'[r].spawns = 0 /\ req'[r].fetches = 0
         /\ anvilInstances' = anvilInstances
         /\ procs' = procs]_vars

\* An anvil_stop call with port 0 was rejected and the node registered on
\* the default port is still registered and running.
C15_Witness ==
  \E r \in Reqs :
    /\ req[r].pc = "returned" /\ req[r].rejected
    /\ req[r].tool = "anvil_stop" /\ req[r].input.port = Port(0)
    /\ Tracked(anvilInstances, DefaultPort)
    /\ procs[1].state = "listening"

\* ------------------------------------------------------------------ C16
\* C16 as stated: a node-control RPC tool posts its request to the rpc-url
\* of the call when there is one, and to http://127.0.0.1:8545 otherwise;
\* no other endpoint is used.
C16_CallerOrLocalEndpoint ==
  \A r \in Reqs : \A i \in 1..Len(req[r].sent) :
    req[r].sent[i].url =
      IF req[r].rpcUrl # NoUrl THEN req[r].rpcUrl ELSE Url("127.0.0.1", 8545)

\* C16, amended: a node-control RPC tool posts its request to the rpc-url of
\* the call when there is one; otherwise to the default endpoint of the
\* environment (RPC_URL) when that is set; otherwise to
\* http://127.0.0.1:8545.  The registry is not consulted.
C16_CallerContextOrLocalEndpoint ==
  \A r \in Reqs : \A i \in 1..Len(req[r].sent) :
    req[r].sent[i].url =
      IF req[r].rpcUrl # NoUrl THEN req[r].rpcUrl
      ELSE IF context.rpcUrl # NoUrl THEN context.rpcUrl
      ELSE Url("127.0.0.1", 8545)

\* A call without rpc-url, made while RPC_URL is set, has posted its request
\* to the RPC_URL endpoint.
C16_Witness ==
  \E r \in Reqs :
    /\ req[r].pc = "rpc_wait"
    /\ req[r].rpcUrl = NoUrl
    /\ context.rpcUrl = Url("ctx", 8545)
    /\ req[r].sent[1].url = Url("ctx", 8545)

\* ------------------------------------------------------------------ C17
\* C17: a forge or cast tool that takes rpc-url and private-key hands the
\* program the value of the call when the call has one and the default of
\* the environment (RPC_URL, PRIVATE_KEY) when it has not: the command
\* carries --rpc-url / --private-key with that value, and carries no such
\* flag only when neither the call nor the environment has a value.
\* cast_send does this; forge_script and forge_create pass the options of
\* the call to buildArgs as they are.
C17_Given(options, key) ==
  IF \E i \in 1..Len(options) : options[i].key = key
    THEN (CHOOSE e \in {options[i] : i \in 1..Len(options)} : e.key = key).value.s
  ELSE ""

C17_Carries(command, flag, value) ==
  IF value = "" THEN \A i \in 1..Len(command) : command[i] # flag
  ELSE \E i \in 1..(Len(command) - 1) : command[i] = flag /\ command[i + 1] = value

C17_DefaultsResolved ==
  \A r \in Reqs :
    LET q == req[r]
        url == C17_Given(q.options, "rpc-url")
        key == C17_Given(q.options, "private-key")
    IN (q.pc # "idle" /\ q.tool \in {"forge_script", "forge_create", "cast_send"}) =>
         /\ C17_Carries(q.command, "--rpc-url", IF url # "" THEN url ELSE context.rpcUrl)
         /\ C17_Carries(q.command, "--private-key", IF key # "" THEN key ELSE context.privateKey)

\* ------------------------------------------------------------------ C20
\* C20: buildArgs goes through the entries of the options object in order;
\* an entry whose value is undefined or false gives no token, one whose
\* value is true gives the flag alone, any other gives the flag and the
\* string form of the value; the flag is -key for a one-character key and
\* --key for any other.
C20_Tokens(e) ==
  LET flag == (IF Len(e.key) = 1 THEN "-" ELSE "--") \o e.key IN
  CASE e.value.kind = "undefined" -> <<>>
    [] e.value.kind = "boolean" -> IF e.value.b THEN <<flag>> ELSE <<>>
    [] e.value.kind = "number" -> <<flag, ToString(e.value.n)>>
    [] OTHER -> <<flag, e.value.s>>

C20_BuildArgsTokens ==
  \A r \in Reqs :
    LET o == req[r].passed
        a == req[r].args
        off[i \in 0..Len(o)] == IF i = 0 THEN 0 ELSE off[i - 1] + Len(C20_Tokens(o[i]))
    IN req[r].pc # "idle" =>
         /\ Len(a) = off[Len(o)]
         /\ \A i \in 1..Len(o) : \A k \in 1..Len(C20_Tokens(o[i])) :
              a[off[i - 1] + k] = C20_Tokens(o[i])[k]

\* buildArgs was given a one-character key with a number, a longer key with
\* true, and returned three tokens in that order.
C20_Witness ==
  \E r \in Reqs :
    /\ req[r].pc = "spawn"
    /\ req[r].passed = <<Entry("v", NumV(3)), Entry("gas_report", BoolV(TRUE))>>
    /\ req[r].args = <<"-v", "3", "--gas_report">>

\* ------------------------------------------------------------------ C18
\* C18: every block count, timestamp and time delta is put into the params
\* of the request as a string of 0x and hexadecimal digits whose value is
\* the number given: blocks and interval of anvil_mine, timestamp of
\* anvil_setNextBlockTimestamp, seconds of anvil_increaseTime.
\* anvil_mine encodes both of its numbers; the two time tools put the
\* number itself into params.
C18_DigitValue(d) == CHOOSE i \in 0..15 : HexDigits[i + 1] = d

RECURSIVE C18_HexValue(_)
C18_HexValue(digits) ==
  IF digits = <<>> THEN 0
  ELSE 16 * C18_HexValue(SubSeq(digits, 1, Len(digits) - 1))
         + C18_DigitValue(digits[Len(digits)])

C18_IsHexOf(param, n) ==
  /\ param.kind = "string"
  /\ param.prefix = "0x"
  /\ param.digits # <<>>
  /\ C18_HexValue(param.digits) = n

C18_NumericParamsHex ==
  \A r \in Reqs :
    LET q == req[r] IN
    q.pc # "idle" =>
      \A i \in 1..Len(q.sent) :
        LET params == q.sent[i].params IN
        /\ q.tool = "anvil_mine" =>
             /\ C18_IsHexOf(params[1], IF q.a = 0 THEN 1 ELSE q.a)
             /\ q.b # 0 => C18_IsHexOf(params[2], q.b)
        /\ q.tool \in {"anvil_setNextBlockTimestamp", "anvil_increaseTime"} =>
             C18_IsHexOf(params[1], q.a)

\* ------------------------------------------------------------------ C19
\* C19: jsonRpcCall posts one request per call, with id 1, and does not
\* post again whatever comes back; when the response has an error member
\* the call fails with the message of that error (also when a result member
\* is there too), and when it has none the call returns the result member.
C19_OneRequestErrorOrResult ==
  \A r \in Reqs :
    LET q == req[r] IN
    /\ q.pc \in {"rpc_wait", "returned"} => Len(q.sent) = 1 /\ q.sent[1].id = 1
    /\ (q.pc = "returned" /\ q.response.kind = "json") =>
         IF q.response.hasError
           THEN /\ q.outcome = [ok |-> FALSE, value |-> q.response.message]
                /\ q.output[1].str = q.response.message
           ELSE q.outcome = [ok |-> TRUE, value |-> q.response.result]

\* A call got a response with both an error and a result member and failed
\* with the message of the error, having posted one request.
C19_Witness ==
  \E r \in Reqs :
    /\ req[r].pc = "returned"
    /\ req[r].response = Response("json", TRUE, "boom", "0x1")
    /\ req[r].outcome = [ok |-> FALSE, value |-> "boom"]
    /\ Len(req[r].sent) = 1

\* ------------------------------------------------------------------ C21
\* C21: for a successful result formatOutput returns stdout, or the fixed
\* placeholder when stdout is empty; for a failed one it returns an
\* "Error: " line with stderr exactly when stderr is not empty, then an
\* "Output: " line with stdout exactly when stdout is not empty, then the
\* "Exit code: " line with the code, always and last.  The text is never
\* empty.
C21_FormatOutputLines ==
  \A r \in Reqs :
    (req[r].pc = "returned" /\ req[r].tool = "forge_build") =>
      LET result == req[r].results[1]
          out == req[r].output
          e == IF result.stderr # "" THEN 1 ELSE 0
          o == IF result.stdout # "" THEN 1 ELSE 0
      IN /\ Len(out) > 0
         /\ \A k \in 1..Len(out) : out[k].tag \o out[k].str # "" \/ out[k].tag = "Exit code: "
         /\ IF result.success
              THEN /\ Len(out) = 1
                   /\ out[1].tag = ""
                   /\ out[1].str = IF result.stdout # "" THEN result.stdout
                                   ELSE "Command completed successfully."
              ELSE /\ Len(out) = e + o + 1
                   /\ e = 1 => out[1] = Line("Error: ", result.stderr, 0)
                   /\ o = 1 => out[e + 1] = Line("Output: ", result.stdout, 0)
                   /\ out[e + o + 1] = Line("Exit code: ", "", result.exitCode)

\* A program that wrote nothing but blanks exited with code 2: the text is
\* the exit code line alone.
C21_Witness ==
  \E r \in Reqs :
    /\ req[r].pc = "returned"
    /\ req[r].tool = "forge_build"
    /\ req[r].runs[1] = Run(TRUE, "", " ", "", 2)
    /\ req[r].output = <<Line("Exit code: ", "", 2)>>

\* ------------------------------------------------------------------ C22
\* C22: a read of the documentation that begins while the cache holds the
\* content of a successful fetch that is less than one hour (3,600,000 ms)
\* old returns that content at once: it sends no request and leaves the
\* cache as it is.
C22_FreshCacheServed ==
  [][\A r \in Reqs :
       (/\ Began(r, "foundry_docs")
        /\ docsCache.set
        /\ now - docsCache.timestamp < 3600000) =>
         /\ req'[r].pc = "returned"
         /\ req'[r].fetches = 0
         /\ req'[r].outcome = [ok |-> TRUE, value |-> docsCache.content]
         /\ req'[r].output = <<Line("", docsCache.content, 0)>>
         /\ docsCache' = docsCache]_vars

\* A read made 3,599,999 ms after the fetch was served from the cache.
C22_Witness ==
  \E r \in Reqs :
    /\ req[r].pc = "returned"
    /\ req[r].tool = "foundry_docs"
    /\ req[r].fetches = 0
    /\ docsCache.set
    /\ docsCache.content = "docs v1"
    /\ now - docsCache.timestamp = 3599999
    /\ req[r].output = <<Line("", "docs v1", 0)>>

\* ------------------------------------------------------------------ C23
\* C23: a cache that holds content is never cleared; a fetch that fails
\* (the request is rejected, the status is not OK, the body cannot be read)
\* leaves content and timestamp as they were and the read returns the cached
\* content; the cache changes only in the step in which a fetch succeeds,
\* to the content fetched.
C23_StaleServedOnError ==
  [][/\ docsCache.set => docsCache'.set
     /\ docsCache' # docsCache =>
          \E r \in Reqs :
            /\ req[r].pc = "text_wait" /\ Returns(r)
            /\ req'[r].fetched.kind = "ok"
            /\ docsCache'.content = req'[r].fetched.body
     /\ \A r \in Reqs :
          (/\ Returns(r)
           /\ req'[r].fetched.kind \in {"rejected", "status_500", "text_rejected"}) =>
             /\ docsCache' = docsCache
             /\ docsCache.set =>
                  /\ req'[r].outcome = [ok |-> TRUE, value |-> docsCache.content]
                  /\ req'[r].output = <<Line("", docsCache.content, 0)>>]_vars

\* A read made after the cache went stale got status 500 and was answered
\* with the cached content, which is still in the cache with its old time.
C23_Witness ==
  \E r \in Reqs :
    /\ req[r].pc = "returned"
    /\ req[r].fetched.kind = "status_500"
    /\ docsCache.set
    /\ docsCache.content = "docs v2"
    /\ now - docsCache.timestamp >= 3600000
    /\ req[r].output = <<Line("", "docs v2", 0)>>

C25_OverlappingStartsKeepListener ==
  [][\A r \in Reqs :
       (/\ req[r].pc = "start_probe"
        /\ Returns(r)
        /\ Tracked(anvilInstances, req[r].port)
        /\ \A pid \in Pids : procs'[pid].state # "starting") =>
         \A inst \in Entries(anvilInstances', req[r].port) :
           \A pid \in Pids :
             (procs'[pid].state = "listening" /\ procs'[pid].port = req[r].port) =>
               inst.pid = pid]_vars

\* ------------------------------------------------------------------ C27
\* C27: every process anvil_start has spawned that is alive (a signalled
\* process exits) is the pid of a registry entry or the process of a start
\* call that has not returned yet, so that an anvil_stop can reach it.
\* A status call whose probe fails drops the entry of a process that is
\* still running, and of two overlapping starts for one port the later
\* probe replaces the pid of the listening process by that of the one that
\* exited.
C27_LiveNodesReachable ==
  \A pid \in Pids :
    Alive(pid) =>
      \/ \E i \in 1..Len(anvilInstances) : anvilInstances[i].value.pid = pid
      \/ \E r \in Reqs :
           /\ req[r].tool = "anvil_start"
           /\ req[r].pc \in {"start_sleep", "start_probe"}
           /\ req[r].pid = pid

\* ------------------------------------------------------------------ C28
\* C28: anvil_start inserts its entry only when the process it spawned is
\* alive and is the one that answers the probe; in particular a call whose
\* process has exited by the time its probe is answered inserts nothing.
\* The handler inserts whenever the probe is answered, by whatever listens
\* on the port.
C28_InsertOnlyOwnListener ==
  [][\A r \in Reqs :
       (/\ req[r].pc = "start_probe"
        /\ Returns(r)
        /\ anvilInstances' # anvilInstances) =>
         procs[req[r].pid].state # "exited"]_vars

\* ------------------------------------------------------------------ C26
\* C26: when a step of an anvil_status call removes an entry from the
\* registry, the entry removed is the instance the call read before it sent
\* the probe that failed; an entry that a start has inserted for the port
\* while that probe was in flight is not removed.
\* The catch block deletes by port, whatever entry is there by then.
C26_StatusRemovesProbedInstance ==
  [][\A r \in Reqs :
       (/\ req[r].tool = "anvil_status"
        /\ req[r].pc \in {"status_probe", "statusall_probe"}
        /\ req'[r].probed # req[r].probed
        /\ anvilInstances' # anvilInstances) =>
         LET p == IF req[r].pc = "status_probe" THEN req[r].port ELSE req[r].p
         IN MapGet(anvilInstances, p) = req[r].instance]_vars

\* ------------------------------------------------------------------ C29
\* C29: when chisel_run returns or raises after it has written its
\* temporary file (the shell exited with 0, exited with another code, or
\* could not be spawned), the temporary file does not exist any more.
\* The finally block runs on each of these paths, but what it does is write
\* the empty string to the file: the file stays, empty.
C29_TempFileRemoved ==
  \A r \in Reqs :
    (/\ req[r].tool = "chisel_run"
     /\ req[r].pc = "returned"
     /\ Len(req[r].runs) > 0) =>
      req[r].tmp = "absent"

\* ------------------------------------------------------------------ C30
\* C30: when every timer fires, every HTTP request resolves or rejects and
\* every subprocess exits, each request that is waiting (a start, a status,
\* a JSON-RPC call or a command; a stop never waits) eventually returns its
\* result; and a waiting request waits for nothing but its own timer,
\* round trip or subprocess: its next event can happen whatever the other
\* request is doing (Quiet: but for the turn of the event loop in which
\* the other one is writing its result).
C30_EveryRequestReturns ==
  /\ \A r \in Reqs : (req[r].pc \notin {"idle", "returned"}) ~> (req[r].pc = "returned")
  /\ [](\A r \in Reqs :
          (Quiet /\ req[r].pc \notin {"idle", "returned"}) => ENABLED Settle(r))

\* A start accepted after a command has returned its result while the
\* command is still waiting for its subprocess.
C30_Witness ==
  /\ req["r2"].pc = "returned"
  /\ req["r2"].result.text = "started"
  /\ req["r1"].pc = "exec_wait"
====
